---------------------------- MODULE Spec2Model ----------------------------
(***************************************************************************)
(* Map_Province.py: a Streamlit page that loads an uploaded table of       *)
(* submissions, resolves one (lat, lon) pair per row, filters by Province  *)
(* and renders a timeline, a map and a report of rows without coordinates. *)
(* The script is re-executed top to bottom on every interaction; the only  *)
(* state that survives a run is the widget state (uploaded file, selected  *)
(* province) and the st.cache_data memo of load_data.                      *)
(***************************************************************************)
EXTENDS Integers, Sequences, FiniteSets, TLC

\* ------------------------------------------------------------------ bounds
\* Most data rows in an uploaded file.
MaxRows == 2
\* Most executions of load_data's body on one file that the model follows.
MaxParses == 2

\* ------------------------------------------------------------- table cells
\* Column names the script reads, and one column it only shows in the tooltip.
Province == "Province"
SubmissionDate == "SubmissionDate"
ALat == "Geopoint1-Latitude"
ALon == "Geopoint1-Longitude"
BLat == "geopoint-Latitude"
BLon == "geopoint-Longitude"
KEY == "KEY"
lat == "lat"
lon == "lon"
CoordColumns == {ALat, ALon, BLat, BLon}
AllColumns == {Province, SubmissionDate, KEY} \cup CoordColumns

\* Null markers: the float NaN the reader produces for a blank cell, the
\* pd.NA pick_coordinates returns, and the None row.get gives for a column
\* the row does not have.
NaN == "NaN"
NA == "<NA>"
None == "None"
\* The null timestamp (pandas stores NaT as a reserved integer).
NaT == -1

\* pd.notna / Series.isna on a cell that is not a timestamp.
notna(v) == v \notin {NaN, NA, None}
isna(v) == ~notna(v)

\* row.get(col): None when the row has no such column.
Get(row, col) == IF col \in DOMAIN row THEN row[col] ELSE None

\* pd.read_csv / pd.read_excel on one cell: a blank cell reads as NaN, any
\* other text is kept.
ReadCell(text) == IF text = "" THEN NaN ELSE text

\* pd.read_csv / pd.read_excel: the file's columns and its rows, cell by cell.
ReadFile(file) ==
    [columns |-> file.columns,
     rows |-> [i \in 1..Len(file.rows) |->
                 [c \in file.columns |-> ReadCell(file.rows[i][c])]]]

\* pd.to_datetime(..., errors="coerce") on one cell: the hour count since
\* 2024-01-01 00:00 of a well-formed timestamp, NaT for anything else.
to_datetime(v) ==
    CASE v = "2024-01-01 08:00" -> 8
      [] v = "2024-01-01 20:00" -> 20
      [] v = "2024-01-02 08:00" -> 32
      [] OTHER -> NaT

\* Series.dt.date: the calendar day of a timestamp.
date_only(ts) == ts \div 24


\* --------------------------------------------------------------- load_data
\* pick_coordinates with the two pairs tried in the wrong order.
pick_coordinates_BFirst(row) ==
    IF notna(Get(row, BLat)) /\ notna(Get(row, BLon))
    THEN <<row[BLat], row[BLon]>>
    ELSE IF notna(Get(row, ALat)) /\ notna(Get(row, ALon))
    THEN <<row[ALat], row[ALon]>>
    ELSE <<NA, NA>>

\* pick_coordinates resolving each field on its own: pair A's field when it
\* is non-null, else pair B's.
pick_coordinates_PerField(row) ==
    <<IF notna(Get(row, ALat)) THEN row[ALat]
      ELSE IF notna(Get(row, BLat)) THEN row[BLat] ELSE NA,
      IF notna(Get(row, ALon)) THEN row[ALon]
      ELSE IF notna(Get(row, BLon)) THEN row[BLon] ELSE NA>>

\* The (lat, lon) of one row: pair A when both of its fields are non-null,
\* else pair B when both of its fields are non-null, else (pd.NA, pd.NA).
pick_coordinates(row) ==
    IF notna(Get(row, ALat)) /\ notna(Get(row, ALon))
    THEN <<row[ALat], row[ALon]>>
    ELSE IF notna(Get(row, BLat)) /\ notna(Get(row, BLon))
    THEN <<row[BLat], row[BLon]>>
    ELSE <<NA, NA>>

\* pd.DataFrame(): no columns, no rows.
EmptyFrame == [columns |-> {}, rows |-> <<>>]

\* DataFrame.empty: either axis has length 0.
IsEmpty(frame) == frame.columns = {} \/ Len(frame.rows) = 0

\* df["SubmissionDate"] = pd.to_datetime(df["SubmissionDate"], errors="coerce")
ParseDates(frame) ==
    [columns |-> frame.columns,
     rows |-> [i \in 1..Len(frame.rows) |->
                 [c \in frame.columns |->
                    IF c = SubmissionDate
                    THEN to_datetime(frame.rows[i][c])
                    ELSE frame.rows[i][c]]]]

\* One row of pd.concat([df, coords], axis=1): the row with its lat and lon.
WithCoords(row) ==
    [c \in DOMAIN row \cup {lat, lon} |->
        IF c = lat THEN pick_coordinates(row)[1]
        ELSE IF c = lon THEN pick_coordinates(row)[2]
        ELSE row[c]]

\* df.apply(pick_coordinates, axis=1, result_type="expand"), the renaming of
\* its columns to lat and lon, and the concat.  On a frame without rows apply
\* calls nothing and hands back a copy of the frame: assigning the two names
\* then raises ValueError unless the frame has exactly two columns, and
\* with two columns the concat gives a frame of four columns and no row.
AddCoords(frame) ==
    IF Len(frame.rows) = 0
    THEN IF Cardinality(frame.columns) = Cardinality({lat, lon})
         THEN [raised |-> FALSE, errors |-> <<>>,
               columns |-> frame.columns \cup {lat, lon}, rows |-> <<>>]
         ELSE [raised |-> TRUE, errors |-> <<>>, columns |-> {}, rows |-> <<>>]
    ELSE [raised |-> FALSE, errors |-> <<>>,
          columns |-> frame.columns \cup {lat, lon},
          rows |-> [i \in 1..Len(frame.rows) |-> WithCoords(frame.rows[i])]]

ProvinceError == "The file must contain a 'Province' column."
DateError == "The file must contain a 'SubmissionDate' column."

\* What one call of load_data does: the st.error calls it makes, whether it
\* raises, and the frame it returns.
load_data(file) ==
    LET frame == ReadFile(file) IN
    IF Province \notin frame.columns
    THEN [raised |-> FALSE, errors |-> <<ProvinceError>>,
          columns |-> EmptyFrame.columns, rows |-> EmptyFrame.rows]
    ELSE IF SubmissionDate \notin frame.columns
    THEN [raised |-> FALSE, errors |-> <<DateError>>,
          columns |-> EmptyFrame.columns, rows |-> EmptyFrame.rows]
    ELSE AddCoords(ParseDates(frame))

\* ------------------------------------------------------------------ filter
AllProvinces == "All Provinces"

\* The province names of the model in alphabetical order.
Alphabetical == <<"Herat", "Kabul">>

\* sorted(...) of a set of province names.
Sorted(S) == LET In(x) == x \in S IN SelectSeq(Alphabetical, In)

\* The distinct provinces read from all rows but the last.
UniqueProvinces_SkipLast(rows) ==
    {rows[i][Province] :
        i \in {j \in 1..(Len(rows) - 1) : notna(rows[j][Province])}}

\* df["Province"].dropna().unique(): the distinct non-null provinces.
UniqueProvinces(rows) ==
    {rows[i][Province] : i \in {j \in 1..Len(rows) : notna(rows[j][Province])}}

\* province_list = ["All Provinces"] + sorted(...)
ProvinceList(rows) == <<AllProvinces>> \o Sorted(UniqueProvinces(rows))

\* The filter without the test for the sentinel.
FilterProvince_NoSentinel(rows, selected) ==
    LET Keep(r) == notna(r[Province]) /\ r[Province] = selected
    IN SelectSeq(rows, Keep)

\* filtered = df.copy(); if selected_province != "All Provinces":
\*     filtered = filtered[filtered["Province"] == selected_province]
\* (the comparison is False on a null Province).
FilterProvince(rows, selected) ==
    IF selected # AllProvinces
    THEN LET Keep(r) == notna(r[Province]) /\ r[Province] = selected
         IN SelectSeq(rows, Keep)
    ELSE rows

\* valid_coords = filtered.dropna(subset=["lat", "lon"])
ValidCoords(rows) ==
    LET Keep(r) == notna(r[lat]) /\ notna(r[lon]) IN SelectSeq(rows, Keep)

\* The report selecting on pair A's columns instead of the derived ones.
MissingCoords_PairA(rows) ==
    LET Keep(r) == isna(Get(r, ALat)) \/ isna(Get(r, ALon))
    IN SelectSeq(rows, Keep)

\* missing_coords = filtered[filtered["lat"].isna() | filtered["lon"].isna()]
MissingCoords(rows) ==
    LET Keep(r) == isna(r[lat]) \/ isna(r[lon]) IN SelectSeq(rows, Keep)

\* ---------------------------------------------------------------- timeline
\* filtered["SubmissionDate"].notna().any()
AnyDate(rows) == \E i \in 1..Len(rows) : rows[i][SubmissionDate] # NaT

\* times = filtered.dropna(subset=["SubmissionDate"])
Times(rows) ==
    LET Keep(r) == r[SubmissionDate] # NaT IN SelectSeq(rows, Keep)

\* The days of a set in increasing order (groupby sorts its keys).
RECURSIVE SortDays(_)
SortDays(S) ==
    IF S = {} THEN <<>>
    ELSE LET m == CHOOSE x \in S : \A y \in S : x <= y
         IN <<m>> \o SortDays(S \ {m})

\* The grouping keyed by the timestamp itself instead of its calendar day.
GroupByDate_ByTimestamp(times) ==
    LET stamps == {times[i][SubmissionDate] : i \in 1..Len(times)}
        sorted == SortDays(stamps)
    IN [k \in 1..Len(sorted) |->
          [date_only |-> date_only(sorted[k]),
           count |-> Cardinality({i \in 1..Len(times) :
                        times[i][SubmissionDate] = sorted[k]})]]

\* times.groupby("date_only").size().reset_index(name="count")
GroupByDate(times) ==
    LET days == {date_only(times[i][SubmissionDate]) : i \in 1..Len(times)}
        sorted == SortDays(days)
    IN [k \in 1..Len(sorted) |->
          [date_only |-> sorted[k],
           count |-> Cardinality({i \in 1..Len(times) :
                        date_only(times[i][SubmissionDate]) = sorted[k]})]]

\* ------------------------------------------------------------------ inputs
\* Every sequence over S of at most n items.
SeqsUpTo(S, n) == UNION {[1..k -> S] : k \in 0..n}

\* The text of a filled coordinate cell, by column.
CoordText(c) ==
    CASE c = ALat -> "34.5"
      [] c = ALon -> "69.2"
      [] c = BLat -> "31.6"
      [] c = BLon -> "65.7"

DateCells == {"", "soon", "2024-01-01 08:00", "2024-01-01 20:00",
              "2024-01-02 08:00"}

\* Rows of a file that has only the two required columns.
DateRows ==
    {[c \in {Province, SubmissionDate} |-> IF c = Province THEN p ELSE d] :
        p \in {"", "Herat", "Kabul"}, d \in DateCells}

\* Rows of a file that has the required columns and both coordinate pairs,
\* each coordinate cell filled or blank.
CoordRows ==
    {[c \in {Province, SubmissionDate} \cup CoordColumns |->
        IF c = Province THEN p
        ELSE IF c = SubmissionDate THEN "2024-01-01 08:00"
        ELSE IF c \in filled THEN CoordText(c) ELSE ""] :
        p \in {"Herat", "Kabul"}, filled \in SUBSET CoordColumns}

\* A fully filled row over a given set of columns.
FilledRow(columns) ==
    [c \in columns |->
        IF c = Province THEN "Kabul"
        ELSE IF c = SubmissionDate THEN "2024-01-02 08:00"
        ELSE IF c = KEY THEN "uuid:1"
        ELSE CoordText(c)]

\* The uploads the model follows: files of dates, files of coordinates, and
\* files of every column layout with no row or one row.
Files ==
    {[name |-> "dates.csv", columns |-> {Province, SubmissionDate}, rows |-> rs] :
        rs \in SeqsUpTo(DateRows, MaxRows)}
    \cup
    {[name |-> "points.csv",
      columns |-> {Province, SubmissionDate} \cup CoordColumns, rows |-> rs] :
        rs \in SeqsUpTo(CoordRows, MaxRows)}
    \cup
    UNION {{[name |-> "layout.xlsx", columns |-> cs, rows |-> <<>>],
            [name |-> "layout.xlsx", columns |-> cs, rows |-> <<FilledRow(cs)>>]} :
        cs \in SUBSET AllColumns}

\* The value of the uploader while nothing is uploaded (falsy in the script).
NoFile == [name |-> "", columns |-> {}, rows |-> <<>>]

\* The files of a user who uploads several files in one session.
SessionFiles ==
    {[name |-> "dates.csv", columns |-> {Province, SubmissionDate},
      rows |-> <<[c \in {Province, SubmissionDate} |->
                    IF c = Province THEN "Herat" ELSE "2024-01-01 08:00"]>>],
     [name |-> "layout.xlsx", columns |-> AllColumns,
      rows |-> <<FilledRow(AllColumns)>>],
     [name |-> "layout.xlsx", columns |-> {SubmissionDate, KEY},
      rows |-> <<FilledRow({SubmissionDate, KEY})>>],
     [name |-> "dates.csv", columns |-> {Province, SubmissionDate}, rows |-> <<>>],
     [name |-> "layout.xlsx", columns |-> {Province, SubmissionDate, KEY},
      rows |-> <<>>]}

\* ------------------------------------------------------------------- state
VARIABLES
    pool,               \* the files the user has at hand (never changes)
    uploaded_file,      \* the uploader's value, NoFile while it is empty
    selected_province,  \* the selectbox's value
    cache,              \* st.cache_data's memo of load_data: file -> result
    parse_count,        \* file -> executions of load_data's body so far
    page,               \* what the last run put on the page
    df,                 \* the frame the last run loaded
    province_list,      \* the options the last run offered
    filtered,           \* the rows the last run kept
    valid_coords,       \* the rows the last run sent to the map
    missing_coords,     \* the rows the last run sent to the report
    times_by_date       \* the points of the last run's timeline

vars == <<pool, uploaded_file, selected_province, cache, parse_count, page, df,
          province_list, filtered, valid_coords, missing_coords, times_by_date>>

UploadWarning == "Please upload a CSV or Excel file to begin."
NoDatesInfo == "No valid SubmissionDate values found."
NoPointsInfo == "No valid GPS coordinates found for the selected province."
AllPointsSuccess == "All records have GPS Points."

\* f"{len(missing_coords)} records are missing GPS Points."
MissingWarning(n) == ToString(n) \o " records are missing GPS Points."

Msg(kind, text) == [kind |-> kind, text |-> text]

\* The st.error elements of a load_data result (st.cache_data replays the
\* elements of a memoized call on every hit).
ErrorElements(res) ==
    [i \in 1..Len(res.errors) |-> Msg("error", res.errors[i])]

\* A run that ends at st.stop() or at an uncaught exception: nothing below
\* the stop is computed or rendered.
Halted(status, messages) ==
    /\ page' = [status |-> status, messages |-> messages, timeline |-> "none",
                map |-> "none", report |-> "none"]
    /\ selected_province' = AllProvinces
    /\ province_list' = <<>>
    /\ filtered' = <<>>
    /\ valid_coords' = <<>>
    /\ missing_coords' = <<>>
    /\ times_by_date' = <<>>

\* The timeline panel: a chart when some SubmissionDate is not null, else
\* the information message.
TimelinePanel(rows) == IF AnyDate(rows) THEN "chart" ELSE "info"

\* The map panel deciding on the wrong emptiness.
MapPanel_Inverted(valid) == IF Len(valid) # 0 THEN "info" ELSE "deck"

\* The map panel: the information message when valid_coords is empty, else
\* the deck.
MapPanel(valid) == IF Len(valid) = 0 THEN "info" ELSE "deck"

\* The report panel: the success message when missing_coords is empty, else
\* the warning with the count, the table of missing_coords and the download
\* of the same rows as CSV.
ReportPanel(missing) == IF Len(missing) = 0 THEN "success" ELSE "table"

\* The part of the script below the df.empty stop, on a loaded frame and
\* the selectbox's value.
Render(frame, selected) ==
    LET rows == FilterProvince(frame.rows, selected)
        valid == ValidCoords(rows)
        missing == MissingCoords(rows)
    IN /\ province_list' = ProvinceList(frame.rows)
       /\ selected_province' = selected
       /\ filtered' = rows
       /\ valid_coords' = valid
       /\ missing_coords' = missing
       /\ times_by_date' = IF TimelinePanel(rows) = "chart"
                           THEN GroupByDate(Times(rows)) ELSE <<>>
       /\ page' = [status |-> "rendered",
                   messages |->
                      (IF TimelinePanel(rows) = "info"
                       THEN <<Msg("info", NoDatesInfo)>> ELSE <<>>)
                      \o (IF MapPanel(valid) = "info"
                          THEN <<Msg("info", NoPointsInfo)>> ELSE <<>>)
                      \o (IF ReportPanel(missing) = "success"
                          THEN <<Msg("success", AllPointsSuccess)>>
                          ELSE <<Msg("warning", MissingWarning(Len(missing)))>>),
                   timeline |-> TimelinePanel(rows),
                   map |-> MapPanel(valid),
                   report |-> ReportPanel(missing)]

\* The value the selectbox returns in a run: the value the user left it at
\* while the widget is the one of the last run (same options), its first
\* option otherwise.
WidgetValue(options, wanted) ==
    IF page.status = "rendered" /\ province_list = options
    THEN wanted ELSE AllProvinces

\* One execution of the script, top to bottom, with the uploader holding
\* `file` and the selectbox left at `wanted`.
Script(file, wanted) ==
    IF file = NoFile
    THEN /\ Halted("no_file", <<Msg("warning", UploadWarning)>>)
         /\ df' = EmptyFrame
         /\ UNCHANGED <<cache, parse_count>>
    ELSE LET hit == file \in DOMAIN cache
             res == IF hit THEN cache[file] ELSE load_data(file)
             frame == [columns |-> res.columns, rows |-> res.rows]
         IN /\ hit \/ parse_count[file] < MaxParses
            /\ parse_count' = IF hit THEN parse_count
                              ELSE [parse_count EXCEPT ![file] = @ + 1]
            /\ cache' = IF hit \/ res.raised THEN cache
                        ELSE [f \in DOMAIN cache \cup {file} |->
                                 IF f = file THEN res ELSE cache[f]]
            /\ IF res.raised
               THEN /\ Halted("exception", <<>>)
                    /\ df' = EmptyFrame
               ELSE /\ df' = frame
                    /\ IF IsEmpty(frame)
                       THEN Halted("stopped", ErrorElements(res))
                       ELSE Render(frame,
                                   WidgetValue(ProvinceList(frame.rows), wanted))

\* ----------------------------------------------------------------- actions
\* The user puts a file in the uploader; the script runs.
Upload(f) ==
    /\ f # uploaded_file
    /\ uploaded_file' = f
    /\ Script(f, selected_province)
    /\ UNCHANGED pool

\* The user clears the uploader; the script runs.
RemoveFile ==
    /\ uploaded_file # NoFile
    /\ uploaded_file' = NoFile
    /\ Script(NoFile, selected_province)
    /\ UNCHANGED pool

\* The user picks another option of the selectbox; the script runs.
SelectProvince(p) ==
    /\ page.status = "rendered"
    /\ p # selected_province
    /\ Script(uploaded_file, p)
    /\ UNCHANGED <<pool, uploaded_file>>

\* The user asks for a rerun; the script runs on the same widget values.
Rerun ==
    /\ Script(uploaded_file, selected_province)
    /\ UNCHANGED <<pool, uploaded_file>>

\* The page before any upload: the first run stops at the upload warning.
Idle ==
    /\ uploaded_file = NoFile
    /\ selected_province = AllProvinces
    /\ cache = <<>>
    /\ parse_count = [f \in pool |-> 0]
    /\ page = [status |-> "no_file", messages |-> <<Msg("warning", UploadWarning)>>,
               timeline |-> "none", map |-> "none", report |-> "none"]
    /\ df = EmptyFrame
    /\ province_list = <<>>
    /\ filtered = <<>>
    /\ valid_coords = <<>>
    /\ missing_coords = <<>>
    /\ times_by_date = <<>>

\* A user with one file of the model's inputs, or with the session's files.
Init ==
    /\ pool \in {{f} : f \in Files} \cup {SessionFiles}
    /\ Idle

Next ==
    \/ \E f \in pool : Upload(f)
    \/ RemoveFile
    \/ \E i \in 1..Len(province_list) : SelectProvince(province_list[i])
    \/ Rerun

Spec == Init /\ [][Next]_vars

\* ------------------------------------------------------------- properties
\* The number of positions of a sequence that hold a given item.
Count(seq, x) == Cardinality({i \in 1..Len(seq) : seq[i] = x})

\* The items of a sequence.
Range(seq) == {seq[i] : i \in 1..Len(seq)}

\* `part` holds exactly the items of `whole` that satisfy Keep, each as often
\* as `whole` holds it.
ExactlyThose(part, whole, Keep(_)) ==
    /\ \A x \in Range(part) : x \in Range(whole)
    /\ \A x \in Range(whole) :
          Count(part, x) = IF Keep(x) THEN Count(whole, x) ELSE 0

\* The row of the uploaded file that row i of df was read from.
Raw(i) == ReadFile(uploaded_file).rows[i]

PairAComplete(raw) == notna(Get(raw, ALat)) /\ notna(Get(raw, ALon))
PairBComplete(raw) == notna(Get(raw, BLat)) /\ notna(Get(raw, BLon))

\* C1: every row of the loaded table has pair A as its (lat, lon) when both
\* fields of pair A are non-null, whatever pair B holds; otherwise pair B
\* when both fields of pair B are non-null; otherwise lat and lon both null.
C1_CoordinateFallback ==
    \A i \in 1..Len(df.rows) :
        LET raw == Raw(i)
            row == df.rows[i]
        IN /\ PairAComplete(raw) =>
                 row[lat] = raw[ALat] /\ row[lon] = raw[ALon]
           /\ ~PairAComplete(raw) /\ PairBComplete(raw) =>
                 row[lat] = raw[BLat] /\ row[lon] = raw[BLon]
           /\ ~PairAComplete(raw) /\ ~PairBComplete(raw) =>
                 isna(row[lat]) /\ isna(row[lon])

\* A loaded table with one row whose two pairs are both complete, resolved to
\* pair A, and one row whose pair A is half filled, resolved to pair B.
C1_Witness ==
    /\ Len(df.rows) = 2
    /\ PairAComplete(Raw(1)) /\ PairBComplete(Raw(1))
    /\ df.rows[1][lat] = CoordText(ALat) /\ df.rows[1][lon] = CoordText(ALon)
    /\ notna(Get(Raw(2), ALat)) /\ isna(Get(Raw(2), ALon))
    /\ PairBComplete(Raw(2))
    /\ df.rows[2][lat] = CoordText(BLat) /\ df.rows[2][lon] = CoordText(BLon)

\* C10: in every loaded table a row's lat is null exactly when its lon is
\* null, and a non-null (lat, lon) is one source pair taken whole.
C10_WholePair ==
    \A i \in 1..Len(df.rows) :
        LET raw == Raw(i)
            row == df.rows[i]
        IN /\ isna(row[lat]) <=> isna(row[lon])
           /\ notna(row[lat]) =>
                 \/ PairAComplete(raw)
                    /\ <<row[lat], row[lon]>> = <<raw[ALat], raw[ALon]>>
                 \/ PairBComplete(raw)
                    /\ <<row[lat], row[lon]>> = <<raw[BLat], raw[BLon]>>

\* A loaded row with pair A's latitude and pair B's longitude as its only
\* filled coordinate cells, left unresolved.
C10_Witness ==
    \E i \in 1..Len(df.rows) :
        /\ notna(Get(Raw(i), ALat)) /\ isna(Get(Raw(i), ALon))
        /\ isna(Get(Raw(i), BLat)) /\ notna(Get(Raw(i), BLon))
        /\ isna(df.rows[i][lat]) /\ isna(df.rows[i][lon])

\* Selections tried on the filter beside the one the page holds: the
\* sentinel, the provinces of the model and one that no row has.
ProbeSelections == {AllProvinces, "Herat", "Kabul", "Balkh"}

\* C2: the filter returns exactly the rows whose Province equals the
\* selection (none when no row has it), and the whole table, same rows and
\* content, when the selection is the sentinel.
C2_FilterExact ==
    /\ page.status = "rendered" =>
          IF selected_province = AllProvinces
          THEN filtered = df.rows
          ELSE LET Keep(r) == r[Province] = selected_province
               IN ExactlyThose(filtered, df.rows, Keep)
    /\ \A sel \in ProbeSelections :
          LET out == FilterProvince(df.rows, sel)
              Keep(r) == r[Province] = sel
          IN IF sel = AllProvinces
             THEN out = df.rows
             ELSE /\ ExactlyThose(out, df.rows, Keep)
                  /\ (\A r \in Range(df.rows) : r[Province] # sel) => out = <<>>

\* A page filtered to one province of a table that holds two.
C2_Witness ==
    /\ page.status = "rendered"
    /\ selected_province = "Kabul"
    /\ Len(df.rows) = 2
    /\ Len(filtered) = 1
    /\ filtered[1][Province] = "Kabul"

\* C3: the rows sent to the map and the rows sent to the report are disjoint
\* and together are the filtered table, so their counts add up to its count.
C3_Partition ==
    page.status = "rendered" =>
        /\ Len(valid_coords) + Len(missing_coords) = Len(filtered)
        /\ Range(valid_coords) \cap Range(missing_coords) = {}
        /\ Range(valid_coords) \cup Range(missing_coords) = Range(filtered)
        /\ \A x \in Range(filtered) :
              Count(valid_coords, x) + Count(missing_coords, x) = Count(filtered, x)

\* A filtered table with one row on the map and one row in the report.
C3_Witness ==
    /\ page.status = "rendered"
    /\ Len(filtered) = 2
    /\ Len(valid_coords) = 1
    /\ Len(missing_coords) = 1

\* The values the selector offers beside the sentinel.
Offered == Range(province_list) \ {AllProvinces}

\* C5 as stated: every row of a loaded table has a non-null Province, is in
\* the filtered subset of exactly one offered value, and the subsets of the
\* offered values together hold every row.
C5_ExactlyOneCategory ==
    page.status = "rendered" =>
        \A r \in Range(df.rows) :
            /\ notna(r[Province])
            /\ Cardinality({o \in Offered :
                              r \in Range(FilterProvince(df.rows, o))}) = 1

\* C5 as the code has it: a row with a non-null Province is in the subset
\* of exactly one offered value, its own Province; a row with a null
\* Province is loaded all the same and is in no offered value's subset; so
\* the subsets together hold exactly the rows with a non-null Province.
C5_NonNullExactlyOne ==
    page.status = "rendered" =>
        /\ \A r \in Range(df.rows) :
              {o \in Offered : r \in Range(FilterProvince(df.rows, o))}
                 = IF notna(r[Province]) THEN {r[Province]} ELSE {}
        /\ UNION {Range(FilterProvince(df.rows, o)) : o \in Offered}
              = {r \in Range(df.rows) : notna(r[Province])}

\* A loaded table of one Herat row, one Kabul row: both values offered.
C5_Witness ==
    /\ page.status = "rendered"
    /\ Len(df.rows) = 2
    /\ df.rows[1][Province] = "Herat"
    /\ df.rows[2][Province] = "Kabul"
    /\ Offered = {"Herat", "Kabul"}

\* The rows of the filtered table with a non-null timestamp.
Dated == {i \in 1..Len(filtered) : filtered[i][SubmissionDate] # NaT}

\* The sum of the counts of the timeline's points.
RECURSIVE SumCounts(_)
SumCounts(points) ==
    IF points = <<>> THEN 0 ELSE Head(points).count + SumCounts(Tail(points))

\* C8: the timeline shows its empty state exactly when every SubmissionDate
\* of the filtered table is null; otherwise one point per distinct calendar
\* day of the non-null timestamps, in chronological order, counting the rows
\* of that day, so that the counts add up to the rows with a timestamp.
C8_Timeline ==
    page.status = "rendered" =>
        /\ page.timeline = "info" <=> Dated = {}
        /\ page.timeline = "chart" <=> Dated # {}
        /\ page.timeline = "info" <=> Msg("info", NoDatesInfo) \in Range(page.messages)
        /\ {times_by_date[k].date_only : k \in 1..Len(times_by_date)}
              = {filtered[i][SubmissionDate] \div 24 : i \in Dated}
        /\ \A k \in 1..Len(times_by_date) :
              /\ k > 1 => times_by_date[k - 1].date_only < times_by_date[k].date_only
              /\ times_by_date[k].count =
                    Cardinality({i \in Dated : filtered[i][SubmissionDate] \div 24
                                                  = times_by_date[k].date_only})
        /\ SumCounts(times_by_date) = Cardinality(Dated)

\* A timeline of one point that counts two rows of the same day with
\* different times.
C8_Witness ==
    /\ page.status = "rendered"
    /\ Len(filtered) = 2
    /\ Dated = {1, 2}
    /\ filtered[1][SubmissionDate] # filtered[2][SubmissionDate]
    /\ Len(times_by_date) = 1
    /\ times_by_date[1].count = 2

\* C9: the map shows its empty state exactly when no filtered row has both
\* lat and lon, and otherwise plots exactly the valid rows; the report shows
\* its success message exactly when no filtered row lacks lat or lon, and
\* otherwise lists exactly the missing rows; each panel shows one outcome.
C9_Panels ==
    page.status = "rendered" =>
        LET Valid(r) == notna(r[lat]) /\ notna(r[lon])
            Missing(r) == isna(r[lat]) \/ isna(r[lon])
            shown(text) == \E m \in Range(page.messages) : m.text = text
        IN /\ page.map = "info" <=> ~\E r \in Range(filtered) : Valid(r)
           /\ page.map = "deck" <=> \E r \in Range(filtered) : Valid(r)
           /\ ExactlyThose(valid_coords, filtered, Valid)
           /\ page.report = "success" <=> ~\E r \in Range(filtered) : Missing(r)
           /\ page.report = "table" <=> \E r \in Range(filtered) : Missing(r)
           /\ ExactlyThose(missing_coords, filtered, Missing)
           /\ shown(NoPointsInfo) <=> page.map = "info"
           /\ shown(AllPointsSuccess) <=> page.report = "success"
           /\ \A n \in 0..Len(df.rows) :
                 shown(MissingWarning(n)) <=>
                    page.report = "table" /\ n = Len(missing_coords)

\* A page whose map is the empty state while its report warns of two rows
\* and lists them.
C9_Witness ==
    /\ page.status = "rendered"
    /\ page.map = "info"
    /\ page.report = "table"
    /\ Len(missing_coords) = 2
    /\ page.messages = <<Msg("info", NoPointsInfo),
                         Msg("warning", "2 records are missing GPS Points.")>>

\* The page shows an st.error element.
ErrorShown == \E m \in Range(page.messages) : m.kind = "error"

\* No panel of the page is rendered.
NothingRendered ==
    /\ page.timeline = "none" /\ page.map = "none" /\ page.report = "none"
    /\ province_list = <<>>

RequiredColumns == {Province, SubmissionDate}

\* C4: a file that lacks the Province or the SubmissionDate column gives a
\* visible error, no table, and a run that halts before the filter and the
\* panels; the same file with the missing column added loads: no error, no
\* exception, and a table with the file's columns and the derived ones.
C4_MissingColumn ==
    uploaded_file # NoFile =>
        IF ~(RequiredColumns \subseteq uploaded_file.columns)
        THEN /\ ErrorShown
             /\ df = EmptyFrame
             /\ page.status = "stopped"
             /\ NothingRendered
        ELSE /\ ~ErrorShown
             /\ page.status # "exception"
             /\ df.columns = uploaded_file.columns \cup {lat, lon}

\* C6: every run on an uploaded file ends with something on the page: an
\* error (an st.error element, or the exception the framework displays), or
\* all three panels, each as its content or its empty state.
C6_NeverSilent ==
    uploaded_file # NoFile =>
        \/ ErrorShown
        \/ page.status = "exception"
        \/ /\ page.status = "rendered"
           /\ page.timeline \in {"chart", "info"}
           /\ page.map \in {"deck", "info"}
           /\ page.report \in {"table", "success"}

\* C7: load_data's body runs at most once per file, the memo holds for each
\* file the table derived from that file, and every run works from the
\* table derived from the file that is uploaded at that run.
C7_ParsedOnce ==
    /\ \A f \in pool : parse_count[f] <= 1
    /\ \A f \in DOMAIN cache : cache[f] = load_data(f)
    /\ uploaded_file # NoFile /\ page.status # "exception" =>
          df = [columns |-> load_data(uploaded_file).columns,
                rows |-> load_data(uploaded_file).rows]

=============================================================================
